---- MODULE Spec2Model ----
(***************************************************************************)
(* Model of one ConcertoSection (src/concerto_classes.py): the workflow of *)
(* ConcertoSection.wrapper over the input folder, the working feature      *)
(* classes of the geodatabase and the live feature class.                  *)
(*                                                                         *)
(* Strings (file names, key values) are sequences of one-character         *)
(* strings, so that startswith, endswith, slicing, strip and len are       *)
(* computed as Python computes them.                                       *)
(***************************************************************************)
EXTENDS Integers, Sequences, FiniteSets, TLC

(***************************************************************************)
(* Bounds of the model.                                                    *)
(***************************************************************************)
\* longest attribute table of an input shapefile that Init enumerates
MaxRows == 3
\* number of wrapper runs (one per scheduled execution of the script)
MaxRuns == 2
\* most "~ Locked file" lines print_locked_files writes after a failed merge
MaxGdbLocks == 1
\* days between two scheduled executions of the script
DaysPerRun == 1

(***************************************************************************)
(* Python string operations.                                               *)
(***************************************************************************)
\* str.startswith
StartsWith(s, p) == Len(s) >= Len(p) /\ SubSeq(s, 1, Len(p)) = p

\* str.endswith
EndsWith(s, p) == Len(s) >= Len(p) /\ SubSeq(s, Len(s) - Len(p) + 1, Len(s)) = p

\* s[:-4]
DropLast4(s) == SubSeq(s, 1, Len(s) - 4)

\* whitespace characters of str.strip()
IsSpace(c) == c = " "

RECURSIVE LStrip(_)
LStrip(s) == IF s # <<>> /\ IsSpace(Head(s)) THEN LStrip(Tail(s)) ELSE s

RECURSIVE RStrip(_)
RStrip(s) ==
    IF s # <<>> /\ IsSpace(s[Len(s)]) THEN RStrip(SubSeq(s, 1, Len(s) - 1)) ELSE s

\* str.strip(): a new string; the receiver is not changed
Strip(s) == RStrip(LStrip(s))

Range(seq) == {seq[i] : i \in 1..Len(seq)}

(***************************************************************************)
(* Names.                                                                  *)
(***************************************************************************)
DotShp == <<".", "s", "h", "p">>
DotLock == <<".", "l", "o", "c", "k">>
Lock == <<"l", "o", "c", "k">>
DoublePrefix == <<"_", "_">>

\* rename_shape: new_name = "__{}".format(item)
NewName(item) == DoublePrefix \o item

AShp == <<"a">> \o DotShp
AbShp == <<"a", "b">> \o DotShp
BShp == <<"b">> \o DotShp
AShpLock == AShp \o DotLock
AbShpLock == AbShp \o DotLock
ATxt == <<"a", ".", "t", "x", "t">>

\* every name the input folder can hold, in the order os.listdir reports them
NameOrder ==
    << AShp, AbShp, BShp, AShpLock, AbShpLock, ATxt,
       NewName(AShp), NewName(AbShp), NewName(BShp) >>

Names == Range(NameOrder)

\* shape_key_field of the section (REFVAL for three sections, UPRN for Sites)
shape_key_field == "REFVAL"

\* the other attribute fields every shapefile carries
BaseFields == <<"FID", "Shape">>

(***************************************************************************)
(* Key values and rows.  A row of a feature class is its key value and the *)
(* rest of its attributes and geometry (data).                             *)
(***************************************************************************)
KA == <<"K", "A">>
KB == <<"K", "B">>
KC == <<"K", "C">>
Blank == <<>>
OneSpace == <<" ">>
TwoSpaces == <<" ", " ">>
PaddedA == <<" ", "A">>

RealKeys == {KA, KB, KC}
KeyValues == {KA, Blank, OneSpace, TwoSpaces, PaddedA}

Row(k, d) == [key |-> k, data |-> d]

KeysOf(rows) == {rows[i].key : i \in 1..Len(rows)}

\* the number of rows of a feature class with key k
CountKey(rows, k) == Cardinality({i \in 1..Len(rows) : rows[i].key = k})

\* the rows of a feature class that have key k, in cursor order
RowsWithKey(rows, k) == SelectSeq(rows, LAMBDA r : r.key = k)

\* at most one row per key value
UniqueKeys(rows) == \A i, j \in 1..Len(rows) : rows[i].key = rows[j].key => i = j

\* all sequences over S of length at most n
SeqsUpTo(S, n) == UNION {[1..m -> S] : m \in 0..n}

(***************************************************************************)
(* The input folder: a function from the names present to the files.  A    *)
(* shapefile has an attribute table (fields, rows); corrupt says that      *)
(* reading it raises RuntimeError; age is the days since last modified.    *)
(***************************************************************************)
File(f, r, c, a) == [fields |-> f, rows |-> r, corrupt |-> c, age |-> a]

\* os.listdir(self.shape_input)
ListDir(dir) == SelectSeq(NameOrder, LAMBDA n : n \in DOMAIN dir)

(***************************************************************************)
(* has_lock_file and create_list_of_shapes_to_verify.                      *)
(***************************************************************************)
\* has_lock_file: True when the check_list is not empty, None otherwise
has_lock_file(dir, shapefile) ==
    LET shapename == DropLast4(shapefile)
        check_list == SelectSeq(ListDir(dir),
                          LAMBDA name : StartsWith(name, shapename) /\ EndsWith(name, Lock))
    IN  check_list # <<>>

\* the mutant of create_list_of_shapes_to_verify: no test of the prefix
create_list_with_processed(dir) ==
    SelectSeq(ListDir(dir),
        LAMBDA item : EndsWith(item, DotShp) /\ ~has_lock_file(dir, item))

create_list_of_shapes_to_verify(dir) ==
    SelectSeq(ListDir(dir),
        LAMBDA item : /\ EndsWith(item, DotShp)
                      /\ ~StartsWith(item, DoublePrefix)
                      /\ ~has_lock_file(dir, item))

(***************************************************************************)
(* verify_key_field and verify_shapes.                                     *)
(***************************************************************************)
\* lines 154-155: row[0].strip() builds a new string that is dropped, and
\* updateRow(row) writes the row back as it was read
UpdatedKey(key) == key

\* line 156: len(row[0]) > 1, on the row as read
RowIsValid(row) == Len(UpdatedKey(row.key)) > 1

\* verify_key_field: <<valid_rows, invalid_rows>>
verify_key_field(rows) ==
    << Len(SelectSeq(rows, RowIsValid)),
       Len(SelectSeq(rows, LAMBDA r : ~RowIsValid(r))) >>

\* the mutant of Verdict: ListFields does not raise on an unreadable file
Verdict_ignoring_read_failure(file) ==
    IF file.fields = <<>> THEN "no fields"
    ELSE IF shape_key_field \notin Range(file.fields) THEN "no key field"
    ELSE IF verify_key_field(file.rows)[1] <= 0 THEN "no valid rows"
    ELSE "good"

\* the branch of verify_shapes one item takes
Verdict(file) ==
    IF file.corrupt THEN "unreadable"
    ELSE IF file.fields = <<>> THEN "no fields"
    ELSE IF shape_key_field \notin Range(file.fields) THEN "no key field"
    ELSE IF verify_key_field(file.rows)[1] <= 0 THEN "no valid rows"
    ELSE "good"

\* verify_shapes: good_list, dud_list and the row counts of the items counted
verify_shapes(dir) ==
    LET input_list == create_list_of_shapes_to_verify(dir)
        counted == {n \in Range(input_list) :
                        Verdict(dir[n]) \in {"no valid rows", "good"}}
    IN  [ input_list |-> input_list,
          good_list |-> SelectSeq(input_list, LAMBDA n : Verdict(dir[n]) = "good"),
          dud_list |-> SelectSeq(input_list,
                          LAMBDA n : Verdict(dir[n]) \in
                                     {"no fields", "no key field", "no valid rows"}),
          counts |-> [n \in counted |-> verify_key_field(dir[n].rows)] ]

\* the mutant of del_duds: the files of dud_list are deleted
del_duds_deleting(dir, dud_list) ==
    [n \in DOMAIN dir \ Range(dud_list) |-> dir[n]]

\* del_duds: one "@ ... was malformed" line per item; the deletion of lines
\* 227-232 is commented out, so the folder is left as it is
del_duds(dir, dud_list) == dir

(***************************************************************************)
(* The feature classes of the geodatabase.  shape_fc and poly_fc are a     *)
(* table that may not exist; cpad_fc is the local copy of the CPAD view,   *)
(* of which only the key values matter to the join.                        *)
(***************************************************************************)
NoFC == [exists |-> FALSE, fields |-> <<>>, rows |-> <<>>]
FC(f, r) == [exists |-> TRUE, fields |-> f, rows |-> r]
NoTable == [exists |-> FALSE, keys |-> {}]
Table(k) == [exists |-> TRUE, keys |-> k]

KeyedFields == BaseFields \o <<shape_key_field>>

\* all the rows of the listed input files, in list order
RECURSIVE AllRows(_, _)
AllRows(dir, items) ==
    IF items = <<>> THEN <<>>
    ELSE dir[Head(items)].rows \o AllRows(dir, Tail(items))

\* the mutant of AppendedMessageRaises: shape_fc of line 258 is a bound name
AppendedMessageBound == FALSE

\* line 258: the name shape_fc is not bound in process_new_shapes, so the
\* message after a successful append raises NameError inside the try
AppendedMessageRaises == TRUE

\* process_new_shapes.  appendFails, mergeFails: the arcpy call raises.
\* lockLines: the "~ Locked file" lines of print_locked_files.
process_new_shapes(shape, dir, verified_shapes, appendFails, mergeFails, lockLines) ==
    IF shape.exists
    THEN \* the loop ends at its first item: either the append raises, or
         \* it succeeds and the message raises; both are logged and re-raised
         IF appendFails
         THEN [shape |-> shape, raised |-> TRUE, log |-> <<"~ Unable to append">>]
         ELSE LET appended == FC(shape.fields,
                                 shape.rows \o dir[Head(verified_shapes)].rows)
              IN  IF AppendedMessageRaises
                  THEN [shape |-> appended, raised |-> TRUE,
                        log |-> <<"~ Unable to append">>]
                  ELSE [shape |-> FC(shape.fields,
                                     shape.rows \o AllRows(dir, verified_shapes)),
                        raised |-> FALSE, log |-> <<>>]
    ELSE IF mergeFails
         THEN [shape |-> shape, raised |-> TRUE,
               log |-> [i \in 1..lockLines |-> "~ Locked file"]
                       \o <<"~ Unable to merge">>]
         ELSE [shape |-> FC(KeyedFields, AllRows(dir, verified_shapes)),
               raised |-> FALSE, log |-> <<>>]

\* import_CPAD_table: TableToTable_conversion copies the view, or raises
import_CPAD_table(cpad, view, fails) ==
    IF fails
    THEN [cpad |-> cpad, raised |-> TRUE, log |-> <<"~ Unable to create">>]
    ELSE [cpad |-> Table(view), raised |-> FALSE, log |-> <<>>]

\* perform_join with KEEP_COMMON: the rows of the layer whose key has a match
KeepCommon(rows, keys) == SelectSeq(rows, LAMBDA r : r.key \in keys)

\* layer_join_and_copy: create_new_layer, perform_join, create_final_fc; the
\* one that raises logs one line.  keyKept: whether the copied feature class
\* carries the key field under the name shape_key_field (the naming of the
\* output fields is the store's).
layer_join_and_copy(shape, cpad, poly, failsAt, keyKept) ==
    IF failsAt # "none"
    THEN [poly |-> poly, raised |-> TRUE, log |-> <<failsAt>>]
    ELSE [poly |-> FC(IF keyKept THEN KeyedFields ELSE BaseFields,
                      KeepCommon(shape.rows, cpad.keys)),
          raised |-> FALSE, log |-> <<>>]

JoinFailures ==
    {"~ Unable to make Feature Layer", "~ Failed to join", "~ Unable to create"}

(***************************************************************************)
(* process_updates and its helpers.                                        *)
(***************************************************************************)
\* create_master_list: the key of every row of live_fc
create_master_list(liveRows) == [i \in 1..Len(liveRows) |-> liveRows[i].key]

\* list.index: the position (from 1 here) of the first match, 0 for ValueError
IndexOf(seq, x) ==
    IF x \in Range(seq) THEN CHOOSE i \in 1..Len(seq) :
                                 seq[i] = x /\ \A j \in 1..(i - 1) : seq[j] # x
    ELSE 0

\* get_index: the index, or None (0 here) after logging the ValueError
get_index(fields) == IndexOf(fields, shape_key_field)

\* delete_record: deleteRow on every row of live_fc with the key; on a row
\* in locked deleteRow raises, which is logged and skipped
delete_record(liveRows, del_value, locked) ==
    SelectSeq(liveRows, LAMBDA r : ~(r.key = del_value /\ r \notin locked))

\* the deleteRow failures one delete_record call logs
DeleteFailures(liveRows, del_value, locked) ==
    Len(SelectSeq(liveRows, LAMBDA r : r.key = del_value /\ r \in locked))

\* lines 388-394: the scan of poly_fc
RECURSIVE ScanRows(_, _, _, _)
ScanRows(polyRows, check_list, liveRows, locked) ==
    IF polyRows = <<>>
    THEN [live |-> liveRows, replacement_records |-> 0, new_records |-> 0,
          log |-> <<>>, trail |-> <<>>]
    ELSE LET key == Head(polyRows).key
             known == key \in Range(check_list)
             afterDelete == IF known THEN delete_record(liveRows, key, locked)
                            ELSE liveRows
             fails == IF known THEN DeleteFailures(liveRows, key, locked) ELSE 0
             rest == ScanRows(Tail(polyRows), check_list, afterDelete, locked)
         IN  [live |-> rest.live,
              replacement_records |->
                  rest.replacement_records + (IF known THEN 1 ELSE 0),
              new_records |-> rest.new_records + (IF known THEN 0 ELSE 1),
              log |-> [i \in 1..fails |-> "~ Unable to delete old value"]
                      \o rest.log,
              trail |-> (IF known THEN <<afterDelete>> ELSE <<>>) \o rest.trail]

NoReport == [number |-> 0, new |-> 0, replacements |-> 0]

Ended(liveRows, result, rep, lines) ==
    [live |-> liveRows, result |-> result, report |-> rep, log |-> lines]

\* lines 386-401: the rest of process_updates once poly_names is computed
ScanAndAppend(liveRows, poly, locked, appendFails) ==
    IF get_index(poly.fields) = 0
    THEN \* row[None] raises TypeError at the first row
         Ended(liveRows, "TypeError", NoReport, <<"~ Unable to find">>)
    ELSE LET scan == ScanRows(poly.rows, create_master_list(liveRows),
                              liveRows, locked)
         IN  IF appendFails
             THEN Ended(scan.live, "append failed", NoReport,
                        scan.log \o <<"~ Unable to add new shapes to live">>)
             ELSE Ended(scan.live \o poly.rows, "added",
                        [number |-> Len(poly.rows),
                         new |-> scan.new_records,
                         replacements |-> scan.replacement_records],
                        scan.log)

\* the mutants of PolyNamesRaises and of process_updates
PolyNamesBound == FALSE

process_updates_overwriting(liveRows, poly, locked, appendFails) ==
    IF ~poly.exists THEN Ended(liveRows, "no dataset", NoReport, <<>>)
    ELSE IF Len(poly.rows) < 1 THEN Ended(liveRows, "no updates", NoReport, <<>>)
    ELSE Ended(poly.rows, "added",
               [number |-> Len(poly.rows), new |-> Len(poly.rows),
                replacements |-> 0], <<>>)

process_updates_unguarded(liveRows, poly, locked, appendFails) ==
    IF ~poly.exists THEN Ended(liveRows, "no dataset", NoReport, <<>>)
    ELSE Ended(liveRows, "NameError", NoReport, <<>>)

process_updates_first_field(liveRows, poly, locked, appendFails) ==
    IF ~poly.exists THEN Ended(liveRows, "no dataset", NoReport, <<>>)
    ELSE IF Len(poly.rows) < 1 THEN Ended(liveRows, "no updates", NoReport, <<>>)
    ELSE IF get_index(poly.fields) = 0
    THEN \* the first field is compared instead: no row is known
         IF appendFails
         THEN Ended(liveRows, "append failed", NoReport,
                    <<"~ Unable to find", "~ Unable to add new shapes to live">>)
         ELSE Ended(liveRows \o poly.rows, "added",
                    [number |-> Len(poly.rows), new |-> Len(poly.rows),
                     replacements |-> 0], <<"~ Unable to find">>)
    ELSE Ended(liveRows, "NameError", NoReport, <<>>)

\* the mutant of process_updates: the rows of the candidate set are deleted
\* from live_fc and the append of line 396 is left out
process_updates_without_append(liveRows, poly, locked, appendFails) ==
    IF ~poly.exists THEN Ended(liveRows, "no dataset", NoReport, <<>>)
    ELSE IF Len(poly.rows) < 1 THEN Ended(liveRows, "no updates", NoReport, <<>>)
    ELSE LET scan == ScanRows(poly.rows, create_master_list(liveRows),
                              liveRows, locked)
         IN  Ended(scan.live, "added",
                   [number |-> Len(poly.rows), new |-> scan.new_records,
                    replacements |-> scan.replacement_records], scan.log)

\* the mutant of process_updates: the candidate set is appended without the
\* scan of lines 388-394
process_updates_without_scan(liveRows, poly, locked, appendFails) ==
    IF ~poly.exists THEN Ended(liveRows, "no dataset", NoReport, <<>>)
    ELSE IF Len(poly.rows) < 1 THEN Ended(liveRows, "no updates", NoReport, <<>>)
    ELSE Ended(liveRows \o poly.rows, "added",
               [number |-> Len(poly.rows), new |-> Len(poly.rows),
                replacements |-> 0], <<>>)

\* line 385: arcpy.ListFields(self,poly_fc) names poly_fc, which is bound
\* neither in process_updates nor in the module, so the call raises NameError
PolyNamesRaises == TRUE

\* process_updates.  result is "no updates" (line 381), "added" (line 397),
\* or the exception that leaves the method: "no dataset" (GetCount_management
\* of line 377 raises before the test of line 379), "NameError" (line 385),
\* "TypeError" (line 390), "append failed" (line 401).
process_updates(liveRows, poly, locked, appendFails) ==
    IF ~poly.exists THEN Ended(liveRows, "no dataset", NoReport, <<>>)
    ELSE IF Len(poly.rows) < 1 THEN Ended(liveRows, "no updates", NoReport, <<>>)
    ELSE IF PolyNamesRaises THEN Ended(liveRows, "NameError", NoReport, <<>>)
    ELSE ScanAndAppend(liveRows, poly, locked, appendFails)

\* live_fc after each delete_record call and after the append of line 396,
\* in the order process_updates makes them
LiveStates(liveRows, poly, locked, appendFails) ==
    IF process_updates(liveRows, poly, locked, appendFails).result
           \notin {"added", "append failed"}
    THEN <<>>
    ELSE LET scan == ScanRows(poly.rows, create_master_list(liveRows),
                              liveRows, locked)
         IN  scan.trail \o (IF appendFails THEN <<>>
                            ELSE <<scan.live \o poly.rows>>)

\* the results with which an exception leaves process_updates
Raised == {"no dataset", "NameError", "TypeError", "append failed"}

(***************************************************************************)
(* finally_rename_shapes, rename_shape and retire_old_files.               *)
(***************************************************************************)
\* line 460: the assertion of rename_shape
RenameAssertion(item) == EndsWith(item, DotShp) /\ ~StartsWith(item, DoublePrefix)

\* line 463: the name sef is not bound, so computing new_path raises
\* NameError, which leaves rename_shape and is caught at line 448; the
\* Rename_management call of line 465 is never reached
NewPathRaises == TRUE

\* the folder with item renamed to new_name
Renamed(dir, item, new_name) ==
    [n \in (DOMAIN dir \ {item}) \cup {new_name} |->
        IF n = new_name THEN dir[item] ELSE dir[n]]

\* finally_rename_shapes: rename_shape on each item of good_list in turn.
\* failing: the items on which Rename_management raises.
RECURSIVE finally_rename_shapes(_, _, _)
finally_rename_shapes(dir, good_list, failing) ==
    IF good_list = <<>> THEN [folder |-> dir, log |-> <<>>, asserted |-> TRUE]
    ELSE LET item == Head(good_list)
             ok == RenameAssertion(item)
             moved == ok /\ ~NewPathRaises /\ item \notin failing
             rest == finally_rename_shapes(
                         IF moved THEN Renamed(dir, item, NewName(item)) ELSE dir,
                         Tail(good_list), failing)
         IN  [folder |-> rest.folder,
              log |-> (IF moved THEN <<>> ELSE <<"~ Unable to rename">>) \o rest.log,
              asserted |-> ok /\ rest.asserted]

\* age.days >= 30
RetireDays == 30

\* the mutant of Retirable: the test of the prefix is left out
Retirable_any_shapefile(dir) ==
    {n \in DOMAIN dir : EndsWith(n, DotShp) /\ dir[n].age >= RetireDays}

\* the items retire_old_files tries to delete
Retirable(dir) ==
    {n \in DOMAIN dir : /\ StartsWith(n, DoublePrefix)
                        /\ EndsWith(n, DotShp)
                        /\ dir[n].age >= RetireDays}

\* retire_old_files.  failing: the items on which Delete_management raises.
retire_old_files(dir, failing) ==
    LET gone == Retirable(dir) \ failing
    IN  [folder |-> [n \in DOMAIN dir \ gone |-> dir[n]],
         log |-> [i \in 1..Cardinality(Retirable(dir) \cap failing) |->
                     "~ Unable to delete"]]

(***************************************************************************)
(* State.                                                                  *)
(***************************************************************************)
VARIABLES
    prefix,     \* feature_class_prefix of the section
    folder,     \* the input folder shape_input
    view,       \* the key values of the CPAD view cpad_view_path
    live,       \* the rows of live_fc
    shape,      \* shape_fc
    cpad,       \* cpad_fc
    poly,       \* poly_fc
    pc,         \* the statement of wrapper that runs next
    run,        \* the number of this execution of the script
    checked,    \* what verify_shapes computed in this run
    verified,   \* self.verified_shapes
    stages,     \* the methods wrapper has called in this run, in order
    outcome,    \* how the last process_updates of this run ended
    report,     \* what line 397 reported in this run
    liveBefore, \* live_fc when process_updates was called
    log,        \* the failure lines (message starts with ~) of this run
    lockedRows, \* the rows of live_fc on which deleteRow raises in this run
    trail,      \* live_fc after each change the last process_updates made
    earlier,    \* what the previous execution of the script left behind
    driver      \* where __main__ is, in the specification of the driver

vars == << prefix, folder, view, live, shape, cpad, poly, pc, run, checked,
           verified, stages, outcome, report, liveBefore, log, lockedRows,
           trail, earlier, driver >>

NothingChecked ==
    [input_list |-> <<>>, good_list |-> <<>>, dud_list |-> <<>>, counts |-> <<>>]

\* before the first execution
NothingEarlier == [dud_list |-> <<>>, outcome |-> "not called"]

\* __main__ is not followed (one section, executed again and again)
NoDriver == [at |-> 0, halted |-> FALSE, left |-> <<>>]

(***************************************************************************)
(* Initial states: the script is about to call wrapper for the first time. *)
(* The folder, the view and live_fc are whatever the producers and earlier *)
(* executions left; live_fc starts with at most one row per key.           *)
(***************************************************************************)
GoodFile(rows, age) == File(KeyedFields, rows, FALSE, age)
OtherFile == File(<<>>, <<>>, FALSE, 0)

\* the rows {A:v2, C:v1} and the live collection {A:v1, B:v1}
ScenarioRows == <<Row(KA, "v2"), Row(KC, "v1")>>
ScenarioLive == <<Row(KA, "v1"), Row(KB, "v1")>>

\* five rows, three with a key and two with a blank key
FiveRows ==
    << Row(KA, "v2"), Row(Blank, "v2"), Row(KB, "v2"), Row(Blank, "v2"),
       Row(KC, "v2") >>

IsShapefile(n) == EndsWith(n, DotShp)

\* any set of names, every shapefile a well-formed one
DiscoveryFolders ==
    { [n \in S |-> IF IsShapefile(n) THEN GoodFile(ScenarioRows, 0) ELSE OtherFile] :
        S \in SUBSET Names }

\* one shapefile, with any attribute table up to MaxRows rows
RowSeqs == { [i \in DOMAIN ks |-> Row(ks[i], "v2")] : ks \in SeqsUpTo(KeyValues, MaxRows) }

SpecialFiles ==
    { File(<<>>, <<>>, FALSE, 0),
      File(BaseFields, ScenarioRows, FALSE, 0),
      File(KeyedFields, ScenarioRows, TRUE, 0),
      GoodFile(FiveRows, 0) }

VerifyFolders ==
    { [n \in {AShp} |-> GoodFile(rows, 0)] : rows \in RowSeqs }
    \cup
    { [n \in {AShp, BShp} |-> IF n = AShp THEN f ELSE GoodFile(ScenarioRows, 0)] :
        f \in SpecialFiles }

\* processed and unprocessed files around the retirement age
RetireAges == (RetireDays - 2) .. (RetireDays + 1)

RetireFolders ==
    { [n \in {NewName(AShp), NewName(BShp), AbShp} |->
          GoodFile(ScenarioRows, IF n = NewName(AShp) THEN a1
                                 ELSE IF n = NewName(BShp) THEN a2 ELSE a3)] :
        a1 \in RetireAges, a2 \in RetireAges, a3 \in {0, RetireDays + 1} }

\* one or two shapefiles with keyed rows, against several live collections
KeyedRowSeqs ==
    { [i \in DOMAIN ks |-> Row(ks[i], "v2")] : ks \in SeqsUpTo(RealKeys, 2) \ {<<>>} }

ReconcileFolders ==
    { [n \in {AShp} |-> GoodFile(rows, 0)] : rows \in KeyedRowSeqs \cup {ScenarioRows} }

Lives == { <<>>, ScenarioLive, <<Row(KC, "v1")>> }
Views == { RealKeys, {KA}, {} }
Sections == { "Disposals", "Cases" }

InitFolder(dir, liveRows, keys, name) ==
    /\ folder = dir
    /\ live = liveRows
    /\ view = keys
    /\ prefix = name

Init ==
    /\ \/ \E dir \in DiscoveryFolders \cup VerifyFolders \cup RetireFolders :
              InitFolder(dir, ScenarioLive, RealKeys, "Disposals")
       \/ \E dir \in ReconcileFolders, liveRows \in Lives, keys \in Views,
             name \in Sections :
              InitFolder(dir, liveRows, keys, name)
    /\ shape = NoFC
    /\ cpad = NoTable
    /\ poly = NoFC
    /\ pc = "tidy"
    /\ run = 1
    /\ checked = NothingChecked
    /\ verified = <<>>
    /\ stages = <<>>
    /\ outcome = "not called"
    /\ report = NoReport
    /\ liveBefore = live
    /\ log = <<>>
    /\ lockedRows = {}
    /\ trail = <<>>
    /\ earlier = NothingEarlier
    /\ driver = NoDriver

(***************************************************************************)
(* wrapper, one action per method it calls.                                *)
(***************************************************************************)
\* the mutant of Abort: the exception is logged and line 54 still runs
Abort_then_rename(lines) ==
    /\ log' = log \o lines \o <<"~ Unable to update">>
    /\ pc' = "rename"

\* the mutant of Abort: the exception is logged and wrapper goes to line 64
Abort_without_retire(lines) ==
    /\ log' = log \o lines \o <<"~ Unable to update">>
    /\ pc' = "post"

\* lines 55-56: an exception of the try block is logged and the rest of the
\* block is skipped
Abort(lines) ==
    /\ log' = log \o lines \o <<"~ Unable to update">>
    /\ pc' = "retire"

\* the items of tidy_list that exist
TidyExisting ==
    {i \in {"shape", "poly", "cpad"} :
        \/ i = "shape" /\ shape.exists
        \/ i = "poly" /\ poly.exists
        \/ i = "cpad" /\ cpad.exists}

\* tidy_start and tidy_delete_old_files.  stuck: the items on which
\* Delete_management raises; they are logged and left in place.
TidyStart ==
    /\ pc = "tidy"
    /\ \E stuck \in SUBSET TidyExisting :
        /\ shape' = IF "shape" \in stuck THEN shape ELSE NoFC
        /\ poly' = IF "poly" \in stuck THEN poly ELSE NoFC
        /\ cpad' = IF "cpad" \in stuck THEN cpad ELSE NoTable
        /\ log' = log \o [i \in 1..Cardinality(stuck) |-> "~ Unable to delete"]
    /\ stages' = Append(stages, "tidy_start")
    /\ pc' = "verify"
    /\ UNCHANGED << lockedRows, trail, driver, earlier, prefix, folder, view,
                    live, run, checked, verified, outcome, report,
                    liveBefore >>

\* the failure lines verify_shapes writes, one per item it does not accept
VerifyLog(dir, input_list) ==
    LET refused == SelectSeq(input_list, LAMBDA n : Verdict(dir[n]) # "good")
    IN  [i \in 1..Len(refused) |->
            CASE Verdict(dir[refused[i]]) = "unreadable" ->
                     "~ Unable to attempt verification"
              [] Verdict(dir[refused[i]]) = "no fields" -> "~ has no fields"
              [] Verdict(dir[refused[i]]) = "no key field" -> "~ Field not found"
              [] OTHER -> "~ has no valid rows"]

\* the mutant of VerifyShapes: the try block is entered without the test of
\* line 48
VerifyShapes_without_test ==
    /\ pc = "verify"
    /\ checked' = verify_shapes(folder)
    /\ verified' = checked'.good_list
    /\ log' = log \o VerifyLog(folder, checked'.input_list)
    /\ stages' = Append(stages, "verify_shapes")
    /\ pc' = "merge"
    /\ UNCHANGED << lockedRows, trail, driver, earlier, prefix, folder, view,
                    live, shape, cpad, poly, run, outcome, report, liveBefore >>

\* line 47 and the test of line 48
VerifyShapes ==
    /\ pc = "verify"
    /\ checked' = verify_shapes(folder)
    /\ folder' = del_duds(folder, checked'.dud_list)
    /\ verified' = checked'.good_list
    /\ log' = log \o VerifyLog(folder, checked'.input_list)
    /\ stages' = Append(stages, "verify_shapes")
    /\ pc' = IF verified' # <<>> THEN "merge" ELSE "retire"
    /\ UNCHANGED << lockedRows, trail, driver, earlier, prefix, view, live,
                    shape, cpad, poly, run, outcome, report, liveBefore >>

\* line 50
ProcessNewShapes ==
    /\ pc = "merge"
    /\ \E appendFails \in BOOLEAN, mergeFails \in BOOLEAN, lockLines \in 0..MaxGdbLocks :
        LET r == process_new_shapes(shape, folder, verified, appendFails,
                                    mergeFails, lockLines)
        IN  /\ shape' = r.shape
            /\ IF r.raised THEN Abort(r.log)
               ELSE pc' = "import" /\ log' = log
    /\ stages' = Append(stages, "process_new_shapes")
    /\ UNCHANGED << lockedRows, trail, driver, earlier, prefix, folder, view,
                    live, cpad, poly, run, checked, verified, outcome,
                    report, liveBefore >>

\* line 51
ImportCPADTable ==
    /\ pc = "import"
    /\ \E fails \in BOOLEAN :
        LET r == import_CPAD_table(cpad, view, fails)
        IN  /\ cpad' = r.cpad
            /\ IF r.raised THEN Abort(r.log)
               ELSE pc' = "join" /\ log' = log
    /\ stages' = Append(stages, "import_CPAD_table")
    /\ UNCHANGED << lockedRows, trail, driver, earlier, prefix, folder, view,
                    live, shape, poly, run, checked, verified, outcome,
                    report, liveBefore >>

\* line 52
LayerJoinAndCopy ==
    /\ pc = "join"
    /\ \E failsAt \in JoinFailures \cup {"none"}, keyKept \in BOOLEAN :
        LET r == layer_join_and_copy(shape, cpad, poly, failsAt, keyKept)
        IN  /\ poly' = r.poly
            /\ IF r.raised THEN Abort(r.log)
               ELSE pc' = "reconcile" /\ log' = log
    /\ stages' = Append(stages, "layer_join_and_copy")
    /\ UNCHANGED << lockedRows, trail, driver, earlier, prefix, folder, view,
                    live, shape, cpad, run, checked, verified, outcome,
                    report, liveBefore >>

\* the rows of live_fc on which delete_record calls deleteRow
Deletable(liveRows, fc) == {r \in Range(liveRows) : r.key \in KeysOf(fc.rows)}

\* line 53.  locked: the rows of live_fc on which deleteRow raises.
ProcessUpdates ==
    /\ pc = "reconcile"
    /\ \E locked \in SUBSET Deletable(live, poly), appendFails \in BOOLEAN :
        LET r == process_updates(live, poly, locked, appendFails)
        IN  /\ live' = r.live
            /\ lockedRows' = locked
            /\ trail' = LiveStates(live, poly, locked, appendFails)
            /\ outcome' = r.result
            /\ report' = r.report
            /\ IF r.result \in Raised THEN Abort(r.log)
               ELSE pc' = "rename" /\ log' = log \o r.log
    /\ liveBefore' = live
    /\ stages' = Append(stages, "process_updates")
    /\ UNCHANGED << driver, earlier, prefix, folder, view, shape, cpad, poly,
                    run, checked, verified >>

\* line 54; every exception is caught inside finally_rename_shapes
FinallyRenameShapes ==
    /\ pc = "rename"
    /\ \E failing \in SUBSET Range(verified) :
        LET r == finally_rename_shapes(folder, verified, failing)
        IN  /\ folder' = r.folder
            /\ log' = log \o r.log
    /\ stages' = Append(stages, "finally_rename_shapes")
    /\ pc' = "retire"
    /\ UNCHANGED << lockedRows, trail, driver, earlier, prefix, view, live,
                    shape, cpad, poly, run, checked, verified, outcome,
                    report, liveBefore >>

\* line 61
RetireOldFiles ==
    /\ pc = "retire"
    /\ \E failing \in SUBSET Retirable(folder) :
        LET r == retire_old_files(folder, failing)
        IN  /\ folder' = r.folder
            /\ log' = log \o r.log
    /\ stages' = Append(stages, "retire_old_files")
    /\ pc' = "post"
    /\ UNCHANGED << lockedRows, trail, driver, earlier, prefix, view, live,
                    shape, cpad, poly, run, checked, verified, outcome,
                    report, liveBefore >>

\* lines 64-68: import_CPAD_table outside the try block; its exception
\* leaves wrapper
ImportForFieldUpdater ==
    /\ pc = "post"
    /\ IF cpad.exists \/ prefix = "Cases"
       THEN /\ pc' = "done"
            /\ UNCHANGED << cpad, log, stages >>
       ELSE \E fails \in BOOLEAN :
               LET r == import_CPAD_table(cpad, view, fails)
               IN  /\ cpad' = r.cpad
                   /\ log' = log \o r.log
                   /\ stages' = Append(stages, "import_CPAD_table")
                   /\ pc' = IF r.raised THEN "crashed" ELSE "done"
    /\ UNCHANGED << lockedRows, trail, driver, earlier, prefix, folder, view,
                    live, shape, poly, run, checked, verified, outcome,
                    report, liveBefore >>

(***************************************************************************)
(* Between two executions of the script: DaysPerRun days pass; the         *)
(* producers may have finished writing, which removes their lock files;    *)
(* tidy_end of the driver may have deleted the working feature classes.    *)
(***************************************************************************)
Unlocked(dir) == [n \in {m \in DOMAIN dir : ~EndsWith(m, Lock)} |-> dir[n]]

Aged(dir) == [n \in DOMAIN dir |-> [dir[n] EXCEPT !.age = @ + DaysPerRun]]

NextRun ==
    /\ pc \in {"done", "crashed"}
    /\ run < MaxRuns
    /\ run' = run + 1
    /\ \E released \in BOOLEAN :
        folder' = Aged(IF released THEN Unlocked(folder) ELSE folder)
    /\ \E tidied \in BOOLEAN :
        IF tidied THEN shape' = NoFC /\ poly' = NoFC /\ cpad' = NoTable
        ELSE UNCHANGED << shape, poly, cpad >>
    /\ pc' = "tidy"
    /\ checked' = NothingChecked
    /\ verified' = <<>>
    /\ stages' = <<>>
    /\ outcome' = "not called"
    /\ report' = NoReport
    /\ liveBefore' = live
    /\ log' = <<>>
    /\ lockedRows' = {}
    /\ trail' = <<>>
    /\ earlier' = [dud_list |-> checked.dud_list, outcome |-> outcome]
    /\ UNCHANGED << driver, prefix, view, live >>

Next ==
    \/ TidyStart
    \/ VerifyShapes
    \/ ProcessNewShapes
    \/ ImportCPADTable
    \/ LayerJoinAndCopy
    \/ ProcessUpdates
    \/ FinallyRenameShapes
    \/ RetireOldFiles
    \/ ImportForFieldUpdater
    \/ NextRun

Spec == Init /\ [][Next]_vars

(***************************************************************************)
(* __main__ of concerto_v4.py: the four wrappers one after the other, then *)
(* the field updates and tidy_end of each section.  No statement of        *)
(* __main__ before the sandbox copy is inside a try block, so an exception *)
(* that leaves a call ends the script.                                     *)
(***************************************************************************)
\* lines 70-82, in the order of the wrapper calls
MainOrder == <<"Disposals", "Cases", "Leases", "Sites">>

\* lines 70-105: the calls of __main__ (the update of Cases is commented out)
MainStatements ==
    << [call |-> "wrapper", section |-> 1], [call |-> "wrapper", section |-> 2],
       [call |-> "wrapper", section |-> 3], [call |-> "wrapper", section |-> 4],
       [call |-> "update", section |-> 1], [call |-> "tidy_end", section |-> 1],
       [call |-> "tidy_end", section |-> 2],
       [call |-> "update", section |-> 3], [call |-> "tidy_end", section |-> 3],
       [call |-> "update", section |-> 4], [call |-> "tidy_end", section |-> 4] >>

\* the input folder of a section: empty, or one shapefile with keyed rows
MainFolders == { [n \in S |-> GoodFile(ScenarioRows, 0)] : S \in {{}, {AShp}} }

\* the reference view of a section
MainViews == { RealKeys, {} }

\* what a new ConcertoSection starts from
FreshSection(name) ==
    /\ prefix' = name
    /\ \E dir \in MainFolders : folder' = dir
    /\ \E keys \in MainViews : view' = keys
    /\ live' = ScenarioLive
    /\ liveBefore' = ScenarioLive
    /\ shape' = NoFC
    /\ poly' = NoFC
    /\ cpad' = NoTable
    /\ pc' = "tidy"

InitMain ==
    /\ prefix = MainOrder[1]
    /\ folder \in MainFolders
    /\ view \in MainViews
    /\ live = ScenarioLive
    /\ liveBefore = ScenarioLive
    /\ shape = NoFC
    /\ poly = NoFC
    /\ cpad = NoTable
    /\ pc = "tidy"
    /\ run = 1
    /\ checked = NothingChecked
    /\ verified = <<>>
    /\ stages = <<>>
    /\ outcome = "not called"
    /\ report = NoReport
    /\ log = <<>>
    /\ lockedRows = {}
    /\ trail = <<>>
    /\ earlier = NothingEarlier
    /\ driver = [at |-> 1, halted |-> FALSE, left |-> <<>>]

\* a wrapper call of lines 73-82 returns: the next statement of __main__.
\* left: the items of the section's tidy_list that exist, for its tidy_end.
WrapperReturns ==
    /\ pc = "done"
    /\ ~driver.halted
    /\ MainStatements[driver.at].call = "wrapper"
    /\ driver' = [driver EXCEPT !.at = @ + 1,
                                !.left = Append(@, TidyExisting)]
    /\ IF MainStatements[driver.at + 1].call = "wrapper"
       THEN FreshSection(MainOrder[driver.at + 1])
       ELSE /\ pc' = "main"
            /\ UNCHANGED << prefix, folder, view, live, liveBefore, shape,
                            poly, cpad >>
    /\ checked' = NothingChecked
    /\ verified' = <<>>
    /\ stages' = <<>>
    /\ outcome' = "not called"
    /\ report' = NoReport
    /\ log' = <<>>
    /\ lockedRows' = {}
    /\ trail' = <<>>
    /\ UNCHANGED << run, earlier >>

\* an exception leaves a wrapper call of lines 73-82: nothing catches it and
\* the script ends
WrapperRaises ==
    /\ pc = "crashed"
    /\ ~driver.halted
    /\ MainStatements[driver.at].call = "wrapper"
    /\ driver' = [driver EXCEPT !.halted = TRUE]
    /\ UNCHANGED << prefix, folder, view, live, shape, cpad, poly, pc, run,
                    checked, verified, stages, outcome, report, liveBefore,
                    log, lockedRows, trail, earlier >>

\* lines 89-90, 98-99, 102-103: FieldUpdater(section).update().  The class is
\* not in the source; the specification gives it no effect on the run of
\* __main__.
FieldUpdate ==
    /\ pc = "main"
    /\ ~driver.halted
    /\ MainStatements[driver.at].call = "update"
    /\ driver' = [driver EXCEPT !.at = @ + 1]
    /\ UNCHANGED << prefix, folder, view, live, shape, cpad, poly, pc, run,
                    checked, verified, stages, outcome, report, liveBefore,
                    log, lockedRows, trail, earlier >>

\* lines 102-103: arcpy.ListFields() is called without its dataset argument,
\* outside the try block of tidy_delete_old_fcs_and_tables
ListFieldsRaises == TRUE

\* lines 91, 96, 100, 104: tidy_end.  tidy_delete_old_files deletes the items
\* of tidy_list that exist (stuck: those on which Delete_management raises,
\* logged and left); tidy_delete_old_fcs_and_tables then raises TypeError.
TidyEnd ==
    /\ pc = "main"
    /\ ~driver.halted
    /\ MainStatements[driver.at].call = "tidy_end"
    /\ \E stuck \in SUBSET driver.left[MainStatements[driver.at].section] :
        /\ driver' = [driver EXCEPT
                          !.left[MainStatements[driver.at].section] = stuck,
                          !.halted = ListFieldsRaises,
                          !.at = IF ListFieldsRaises THEN @ ELSE @ + 1]
        /\ log' = log \o [i \in 1..Cardinality(stuck) |-> "~ Unable to delete"]
    /\ UNCHANGED << prefix, folder, view, live, shape, cpad, poly, pc, run,
                    checked, verified, stages, outcome, report, liveBefore,
                    lockedRows, trail, earlier >>

NextMain ==
    \/ TidyStart
    \/ VerifyShapes
    \/ ProcessNewShapes
    \/ ImportCPADTable
    \/ LayerJoinAndCopy
    \/ ProcessUpdates
    \/ FinallyRenameShapes
    \/ RetireOldFiles
    \/ ImportForFieldUpdater
    \/ WrapperReturns
    \/ WrapperRaises
    \/ FieldUpdate
    \/ TidyEnd

SpecMain == InitMain /\ [][NextMain]_vars

(***************************************************************************)
(* Properties.                                                             *)
(***************************************************************************)
\* process_updates has been called in this run
Called == outcome # "not called"

\* verify_shapes was the last method wrapper called
JustVerified == stages # <<>> /\ stages[Len(stages)] = "verify_shapes"

\* the candidate set of the call had rows and the key field
WellFormed(fc) == fc.exists /\ Len(fc.rows) >= 1 /\ get_index(fc.fields) # 0

C2_AppendedRowsInLive ==
    (Called /\ WellFormed(poly) /\ outcome # "append failed") =>
        /\ outcome = "added"
        /\ \A k \in KeysOf(poly.rows) :
              /\ CountKey(live, k) = 1
              /\ RowsWithKey(live, k) = RowsWithKey(poly.rows, k)

\* C3: no data loss for untouched keys: after a call of process_updates,
\* however it ended, the rows of live_fc with a key that is not in the
\* candidate set are the rows live_fc had with that key before the call.
C3_UntouchedKeys ==
    Called =>
        \A k \in (KeysOf(liveBefore) \cup KeysOf(live)) \ KeysOf(poly.rows) :
            RowsWithKey(live, k) = RowsWithKey(liveBefore, k)

\* a call on a candidate set with rows, one of them with a key of live_fc,
\* while live_fc also has a key that is not in the candidate set
C3_Witness ==
    /\ Called
    /\ WellFormed(poly)
    /\ KeysOf(poly.rows) \cap KeysOf(liveBefore) # {}
    /\ KeysOf(liveBefore) \ KeysOf(poly.rows) # {}

\* C4 as stated: the reported replacements are the candidate rows whose key
\* was in live_fc at the start and the reported new records the others; live
\* {A:v1, B:v1} with candidate {A:v2, C:v1} ends as {A:v2, B:v1, C:v1} with
\* 1 replacement and 1 new reported.
C4_ReportedCounts ==
    (Called /\ WellFormed(poly) /\ outcome # "append failed") =>
        /\ report.replacements =
              Cardinality({i \in 1..Len(poly.rows) :
                              poly.rows[i].key \in KeysOf(liveBefore)})
        /\ report.new =
              Cardinality({i \in 1..Len(poly.rows) :
                              poly.rows[i].key \notin KeysOf(liveBefore)})
        /\ (liveBefore = ScenarioLive /\ poly.rows = ScenarioRows) =>
              /\ Range(live) = {Row(KA, "v2"), Row(KB, "v1"), Row(KC, "v1")}
              /\ Len(live) = 3
              /\ report.replacements = 1
              /\ report.new = 1

NothingRenamed == \A n \in Range(checked.input_list) : n \in DOMAIN folder

\* C6 as stated: whenever the key field is not in the field list of the
\* candidate set, process_updates aborts: an exception leaves it, live_fc is
\* unchanged and finally_rename_shapes is not called.
C6_Stated ==
    (Called /\ poly.exists /\ get_index(poly.fields) = 0) =>
        /\ outcome \in Raised
        /\ live = liveBefore
        /\ "finally_rename_shapes" \notin Range(stages) /\ pc # "rename"
        /\ NothingRenamed

\* C6 amended: when the candidate set has at least one row and the key field
\* is not in its field list, process_updates aborts: an exception leaves it,
\* live_fc is unchanged, finally_rename_shapes is not called and no input
\* file is renamed.
C6_AbortsWithoutKeyField ==
    (Called /\ poly.exists /\ Len(poly.rows) >= 1 /\ get_index(poly.fields) = 0) =>
        /\ outcome \in Raised
        /\ live = liveBefore
        /\ "finally_rename_shapes" \notin Range(stages) /\ pc # "rename"
        /\ NothingRenamed

\* a call on a candidate set with rows and without the key field
C6_Witness ==
    /\ Called
    /\ poly.exists
    /\ Len(poly.rows) >= 1
    /\ get_index(poly.fields) = 0
    /\ KeysOf(poly.rows) \cap KeysOf(liveBefore) # {}

\* C7: a file whose name starts with "__" is never in the list discovery
\* returns, so it is never verified, merged or reconciled again.
C7_ProcessedNeverSelected ==
    /\ \A i \in 1..Len(checked.input_list) :
          ~StartsWith(checked.input_list[i], DoublePrefix)
    /\ \A i \in 1..Len(verified) : ~StartsWith(verified[i], DoublePrefix)

\* a run in which discovery selected a file while a processed shapefile
\* lay in the folder
C7_Witness ==
    /\ JustVerified
    /\ checked.input_list # <<>>
    /\ \E n \in DOMAIN folder : StartsWith(n, DoublePrefix) /\ EndsWith(n, DotShp)

\* the lock file of a shapefile: a name that ends in "lock" and starts with
\* the whole stem of the shapefile followed by a dot (X.shp.lock, X.lock)
HasOwnLockFile(dir, item) ==
    \E n \in DOMAIN dir :
        EndsWith(n, Lock) /\ StartsWith(n, DropLast4(item) \o <<".">>)

\* C8 as stated: discovery selects exactly the names that end in ".shp", do
\* not start with "__" and have no lock file of their own stem.
C8_ExactSelection ==
    JustVerified =>
        Range(checked.input_list) =
            {n \in DOMAIN folder : /\ EndsWith(n, DotShp)
                                   /\ ~StartsWith(n, DoublePrefix)
                                   /\ ~HasOwnLockFile(folder, n)}

\* a row is valid when its key, trimmed, is longer than one character
ValidTrimmed(row) == Len(Strip(row.key)) > 1

\* C9 as stated: of the files verify_key_field read, one whose keys are all
\* empty after trimming is in the dud list and not in the verified list, and
\* the valid rows counted are the rows whose trimmed key is longer than 1.
C9_ZeroValidRowsRejected ==
    JustVerified =>
        \A n \in DOMAIN checked.counts :
            /\ (\A i \in 1..Len(folder[n].rows) : Strip(folder[n].rows[i].key) = <<>>)
                  => n \in Range(checked.dud_list) /\ n \notin Range(verified)
            /\ checked.counts[n][1] = Len(SelectSeq(folder[n].rows, ValidTrimmed))

\* C10 as stated: of the files verify_key_field read, one with at least one
\* valid row is in the verified list with valid_rows and invalid_rows the
\* numbers of its valid and invalid rows, and one in the dud list has none.
C10_PartialValidityKept ==
    JustVerified =>
        \A n \in DOMAIN checked.counts :
            LET valid == Len(SelectSeq(folder[n].rows, ValidTrimmed))
                invalid == Len(folder[n].rows) - valid
            IN  /\ valid >= 1 =>
                      /\ n \in Range(verified)
                      /\ checked.counts[n] = <<valid, invalid>>
                /\ n \in Range(checked.dud_list) => valid = 0

\* the processed shapefiles of dir that are RetireDays old or older
OldProcessed(dir) ==
    {n \in DOMAIN dir : /\ StartsWith(n, DoublePrefix)
                        /\ EndsWith(n, DotShp)
                        /\ dir[n].age >= RetireDays}

\* C11: retirement selectivity: retire_old_files deletes a file only if its
\* name starts with "__", ends with ".shp" and it is at least 30 days old: a
\* processed file of 29 days, and an unprocessed, locked or invalid file of
\* any age, stays as it is; every processed file of 30 days or more that is
\* still there afterwards has its "~ Unable to delete" line.
C11_RetireOnlyOldProcessed ==
    [][pc = "retire" =>
        /\ (DOMAIN folder \ DOMAIN folder') \subseteq OldProcessed(folder)
        /\ \A n \in DOMAIN folder' : n \in DOMAIN folder /\ folder'[n] = folder[n]
        /\ Len(log') - Len(log) = Cardinality(OldProcessed(folder'))]_vars

\* retire_old_files has deleted the processed file of 31 days and has kept
\* the processed file of 29 days and the unprocessed file of 31 days
C11_Witness ==
    /\ run = 1
    /\ "retire_old_files" \in Range(stages)
    /\ "~ Unable to delete" \notin Range(log)
    /\ NewName(AShp) \notin DOMAIN folder
    /\ NewName(BShp) \in DOMAIN folder
    /\ folder[NewName(BShp)].age = RetireDays - 1
    /\ AbShp \in DOMAIN folder
    /\ folder[AbShp].age = RetireDays + 1

\* C12: nothing is process-fatal: whatever stage fails in the wrapper of one
\* section (the try block has logged "~ Unable to update"), __main__ does not
\* halt: the wrappers of the following sections, the field updates and
\* tidy_end are still executed.
C12_NothingIsFatal == "~ Unable to update" \in Range(log) => ~driver.halted

\* finally_rename_shapes is being called or has been called in this run
RenameReached == pc = "rename" \/ "finally_rename_shapes" \in Range(stages)

\* the methods wrapper has called when it reaches line 54
StagesBeforeRename ==
    << "tidy_start", "verify_shapes", "process_new_shapes", "import_CPAD_table",
       "layer_join_and_copy", "process_updates" >>

\* C13: an input file is renamed with "__" only in a run in which merge,
\* import, join-and-copy and reconciliation all completed without error:
\* finally_rename_shapes is reached only after these four have returned
\* normally, a file leaves its original name only there, and in a run where
\* one of them fails the rename stage is not reached and no input file of
\* the section is renamed.
C13_RenamedOnlyAfterAllStages ==
    /\ ~NothingRenamed => "finally_rename_shapes" \in Range(stages)
    /\ RenameReached =>
           /\ Len(stages) >= Len(StagesBeforeRename)
           /\ SubSeq(stages, 1, Len(StagesBeforeRename)) = StagesBeforeRename
           /\ shape.exists /\ cpad.exists /\ poly.exists
           /\ outcome \in {"no updates", "added"}
           /\ "~ Unable to update" \notin Range(log)
    /\ "~ Unable to update" \in Range(log) => NothingRenamed

\* a finished run in which the join failed after merge and import: the two
\* verified files still have their names
C13_Witness ==
    /\ pc = "done"
    /\ Len(verified) = 2
    /\ "~ Unable to update" \in Range(log)
    /\ stages[Len(stages) - 1] = "layer_join_and_copy"
    /\ Range(verified) \subseteq DOMAIN folder

\* the methods of the try block that merge, join, reconcile and rename
ProcessingStages ==
    { "process_new_shapes", "layer_join_and_copy", "process_updates",
      "finally_rename_shapes" }

\* C14: empty-run no-op: when verify_shapes returns an empty list, no merge,
\* join, reconciliation or rename is performed in this run (live_fc is
\* unchanged, no file is renamed) and wrapper goes straight to
\* retire_old_files, which is performed.
C14_EmptyRunOnlyRetires ==
    ("verify_shapes" \in Range(stages) /\ verified = <<>>) =>
        /\ Range(stages) \cap ProcessingStages = {}
        /\ outcome = "not called"
        /\ live = liveBefore
        /\ NothingRenamed
        /\ "~ Unable to update" \notin Range(log)
        /\ pc \in {"retire", "post", "done", "crashed"}
        /\ pc # "retire" => stages[3] = "retire_old_files"

\* a finished run in which verify_shapes rejected every shapefile it was
\* given and retire_old_files was the next method called
C14_Witness ==
    /\ pc = "done"
    /\ verified = <<>>
    /\ Len(checked.dud_list) >= 1
    /\ stages[3] = "retire_old_files"

TryOrder ==
    << "process_new_shapes", "import_CPAD_table", "layer_join_and_copy",
       "process_updates", "finally_rename_shapes" >>

\* where retire_old_files is in stages (Len(stages) + 1 when it is not)
RetireAt ==
    IF "retire_old_files" \in Range(stages)
    THEN CHOOSE i \in DOMAIN stages : stages[i] = "retire_old_files"
    ELSE Len(stages) + 1

\* the methods called in this run between verify_shapes and retire_old_files
TryStages == SubSeq(stages, 3, RetireAt - 1)

\* C20: stage gating: within one run of wrapper, merge, import,
\* join-and-copy, reconcile and rename are called in that order, each only
\* after the previous one succeeded; after the first failing stage no later
\* stage of the block is called; and retire_old_files is called afterwards
\* in every case, before wrapper ends.
C20_StageGating ==
    /\ Len(stages) >= 1 => stages[1] = "tidy_start"
    /\ Len(stages) >= 2 => stages[2] = "verify_shapes"
    /\ TryStages = SubSeq(TryOrder, 1, Len(TryStages))
    /\ Len(TryStages) >= 2 => shape.exists
    /\ Len(TryStages) >= 3 => cpad.exists
    /\ Len(TryStages) >= 4 => poly.exists
    /\ Len(TryStages) >= 5 => outcome \in {"no updates", "added"}
    /\ "~ Unable to update" \in Range(log) =>
           /\ pc \in {"retire", "post", "done", "crashed"}
           /\ Len(TryStages) < Len(TryOrder)
    /\ pc \in {"post", "done", "crashed"} =>
           /\ "retire_old_files" \in Range(stages)
           /\ SubSeq(stages, RetireAt + 1, Len(stages))
                  \in {<<>>, <<"import_CPAD_table">>}

\* a finished run in which import_CPAD_table failed after the merge: join,
\* reconcile and rename were not called, retire_old_files was
C20_Witness ==
    /\ pc = "done"
    /\ "~ Unable to update" \in Range(log)
    /\ stages = << "tidy_start", "verify_shapes", "process_new_shapes",
                   "import_CPAD_table", "retire_old_files",
                   "import_CPAD_table" >>

\* how often the line is in the log of this run
CountLine(line) == Len(SelectSeq(log, LAMBDA x : x = line))

\* the files given to verify_shapes in this run that cannot be read
Unreadable == {n \in Range(checked.input_list) \cap DOMAIN folder : folder[n].corrupt}

\* C21: a read failure while verifying one file is caught and logged, the
\* file is in neither the verified list nor the dud list, every other
\* discovered file is verified (it is in one of the two lists), and the
\* verified list has its files in the order of discovery.
C21_ReadFailureSkipsOneFile ==
    "verify_shapes" \in Range(stages) =>
        /\ Unreadable \cap Range(checked.good_list) = {}
        /\ Unreadable \cap Range(checked.dud_list) = {}
        /\ CountLine("~ Unable to attempt verification") = Cardinality(Unreadable)
        /\ Range(checked.input_list) \ Unreadable
               = Range(checked.good_list) \cup Range(checked.dud_list)
        /\ verified = checked.good_list
        /\ verified = SelectSeq(checked.input_list,
                                LAMBDA n : n \in Range(verified))

\* verify_shapes could not read a.shp and went on to verify b.shp
C21_Witness ==
    /\ "verify_shapes" \in Range(stages)
    /\ checked.input_list = <<AShp, BShp>>
    /\ Unreadable = {AShp}
    /\ verified = <<BShp>>

\* the failure lines written because process_updates did not complete:
\* by get_index, delete_record, line 399 and the except of wrapper
AbortLines ==
    { "~ Unable to find", "~ Unable to delete old value",
      "~ Unable to add new shapes to live", "~ Unable to update" }

\* the number of lines of this run's log that are in AbortLines
CountAbortLines == Len(SelectSeq(log, LAMBDA x : x \in AbortLines))

Completed == outcome \in {"no updates", "added"}

C25_RenameAssertionHolds ==
    /\ \A i \in 1..Len(verified) : RenameAssertion(verified[i])
    /\ RenameReached => verified = checked.good_list

\* finally_rename_shapes has called rename_shape on the verified file
C25_Witness ==
    /\ "finally_rename_shapes" \in Range(stages)
    /\ Len(verified) >= 1
    /\ CountLine("~ Unable to rename") = Len(verified)

====
